---- MODULE Spec2Model ----
(* State-machine model of the cgo boundary in scalibr_c.go: the five      *)
(* exported entry points, the C heap they allocate from, and the memory   *)
(* of the callers (two caller threads).                                   *)
EXTENDS Integers, Sequences, FiniteSets, TLC

VARIABLES
    heap,      \* the C heap: block address -> block
    pc,        \* per thread: where its call stands, "idle" between calls
    req,       \* per thread: the request structure the caller passed
    loc,       \* per thread: the locals of the running call
    held,      \* per thread: the pointers the boundary returned to it
    calls,     \* per thread: entry-point calls made so far
    trace,     \* per thread: the steps of its latest ScalibrScan call
    reads,     \* per thread: the array slots the running call has read
    faults,    \* memory errors that have happened
    crashed,   \* a Go panic has ended the process
    last,      \* whether the latest step was a free of the null pointer
    registry,  \* the plugin names the registry resolves
    engine,    \* what the engine returns for a root, once it has been asked
    scenario   \* "one caller" or "two callers"

vars == <<heap, pc, req, loc, held, calls, trace, reads, faults, crashed, last,
          registry, engine, scenario>>

----------------------------------------------------------------------------
(* Bounds *)

\* entry-point calls (ScalibrVersion, ScalibrScan, ScalibrScanPath) in a run
MaxCalls == 2
\* length of the arrays the callers own, and the largest count they pass
MaxCount == 2

----------------------------------------------------------------------------
(* Addresses.  0 is the null pointer, 1..NumBlocks are blocks of the C    *)
(* heap, addresses above 100 are memory owned by the callers.             *)

Threads == {1, 2}

NULL == 0

\* one call allocates at most three blocks (temporary request, response, text)
BlocksPerThread == 3 * MaxCalls

Blocks == 1..(2 * BlocksPerThread)

\* the blocks malloc hands to thread t (fresh addresses, never handed twice)
Arena(t) == ((t - 1) * BlocksPerThread + 1)..(t * BlocksPerThread)

\* address of the request structure a caller passes to ScalibrScan
CallerConfig == 100
EmptyText == 101
TmpXText == 102
PluginText(i) == 110 + i
PathText(i) == 130 + i
PluginsArray == 201
PathsArray == 202

\* the caller's texts: a text is a sequence of non-NUL chunks
CallerTextAt(a) ==
    IF a = EmptyText THEN <<>>
    ELSE IF a = TmpXText THEN <<"/tmp/x">>
    ELSE IF a = PluginText(1) THEN <<"os/dpkg">>
    ELSE IF a > 110 /\ a <= 110 + MaxCount THEN <<"not-a-real-plugin">>
    ELSE IF a = PathText(1) THEN <<"/etc/os-release">>
    ELSE <<"/usr/lib">>

PluginNames == {<<"os/dpkg">>, <<"not-a-real-plugin">>}

\* the caller's arrays of char*, MaxCount slots each
CallerArrayAt(a) ==
    IF a = PluginsArray THEN [i \in 1..MaxCount |-> PluginText(i)]
    ELSE [i \in 1..MaxCount |-> PathText(i)]

----------------------------------------------------------------------------
(* The C structures *)

\* typedef struct { ... } ScanConfig
ScanConfig(root, pl, plc, pa, pac, mfs, vb, off) ==
    [root_path |-> root, plugins |-> pl, plugins_count |-> plc,
     paths_to_extract |-> pa, paths_count |-> pac,
     max_file_size |-> mfs, verbose |-> vb, offline |-> off]

ZeroConfig == ScanConfig(NULL, NULL, 0, NULL, 0, 0, 0, 0)

\* typedef struct { ... } ScanResult
ScanResult(js, em, sc) ==
    [json_result |-> js, error_message |-> em, status_code |-> sc]

\* a block of the C heap: st is "unalloc", "live" or "freed"; owner and call
\* name the thread and the call that allocated it
EmptyVal == [text |-> <<>>]

FreeBlock == [st |-> "unalloc", kind |-> "none", owner |-> 0, call |-> 0,
              val |-> EmptyVal]

FreedBlock == [st |-> "freed", kind |-> "none", owner |-> 0, call |-> 0,
               val |-> EmptyVal]

----------------------------------------------------------------------------
(* The allocator: C.malloc, C.CString, C.free *)

Min(S) == CHOOSE x \in S : \A y \in S : x <= y

\* one static buffer per thread instead of a new block per call
StaticBuffer(h, t) == Min(Arena(t))

\* one static buffer for every thread
SharedBuffer(h, t) == Min(Blocks)

\* the address malloc returns to thread t: a block not handed out before
FreshBlock(h, t) == Min({b \in Arena(t) : h[b].st = "unalloc"})

\* C.malloc / C.CString: the heap after block b is handed to call k of t
Alloc(h, b, t, k, kind, val) ==
    [h EXCEPT ![b] = [st |-> "live", kind |-> kind, owner |-> t, call |-> k,
                      val |-> val]]

\* C.free(p): free(NULL) does nothing
Free(h, p) ==
    IF p \in Blocks /\ h[p].st = "live" THEN [h EXCEPT ![p] = FreedBlock]
    ELSE h

\* what goes wrong when p is freed in heap h
FreeFault(h, p) ==
    IF p = NULL THEN {}
    ELSE IF p \notin Blocks THEN {"free_of_caller_memory"}
    ELSE IF h[p].st = "freed" THEN {"double_free"}
    ELSE IF h[p].st = "unalloc" THEN {"invalid_free"}
    ELSE {}

\* what goes wrong when thread t reads or writes through p in heap h
AccessFault(h, t, p) ==
    IF p \notin Blocks THEN {}
    ELSE IF h[p].st # "live" THEN {"use_after_free"}
    ELSE IF h[p].owner # t THEN {"foreign_access"}
    ELSE {}

\* C.GoString(p): the text at p, the empty text for a null pointer
GoString(h, p) ==
    IF p = NULL THEN <<>>
    ELSE IF p \in Blocks THEN (IF h[p].kind = "text" THEN h[p].val.text
                                ELSE <<>>)
    ELSE CallerTextAt(p)

----------------------------------------------------------------------------
(* The collaborators: plugin registry, engine, JSON encoder *)

Roots == {<<"/">>, <<"/tmp/x">>}

\* a *scalibr.ScanResult, or nil (present = FALSE)
Outcome(pr, fl, sr) == [present |-> pr, failed |-> fl, serializable |-> sr]

NilOutcome == Outcome(FALSE, FALSE, TRUE)

Outcomes == {NilOutcome, Outcome(TRUE, FALSE, TRUE), Outcome(TRUE, TRUE, TRUE),
             Outcome(TRUE, FALSE, FALSE)}

\* pl.FromNames(names, cfg): the error, <<>> when every name is registered
FromNamesErr(names) ==
    LET bad == {i \in 1..Len(names) : names[i] \notin registry}
    IN  IF bad = {} THEN <<>>
        ELSE <<"plugin ">> \o names[Min(bad)] \o <<" not found">>

\* pl.FromNames(names, cfg): the plugins, one per name
FromNames(names) == names

\* plugin.Capabilities
Capabilities(net, dfs, rs) ==
    [Network |-> net, DirectFS |-> dfs, RunningSystem |-> rs]

\* plugin.FilterByCapabilities: the unregistered-looking plugin needs network
FilterByCapabilities(plugins, capab) ==
    SelectSeq(plugins, LAMBDA p :
        p # <<"not-a-real-plugin">> \/ capab.Network = "NetworkOnline")

\* scalibr.ScanConfig
EngineConfig(roots, plugins, paths, mfs, capab) ==
    [ScanRoots |-> roots, Plugins |-> plugins, PathsToExtract |-> paths,
     MaxFileSize |-> mfs, Capabilities |-> capab]

NoEngineConfig ==
    EngineConfig(<<>>, <<>>, <<>>, 0, Capabilities("unset", FALSE, FALSE))

\* scalibrfs.RealFSScanRoots(rootPath)
RealFSScanRoots(path) == <<path>>

\* the engine has not been asked about a root yet
Unasked == [asked |-> FALSE, out |-> NilOutcome]

\* scanner.Scan(ctx, scanConfig): the outcomes the engine can return; a
\* steady engine answers alike when asked about the same root again
Scan(scanConfig) ==
    LET e == engine[scanConfig.ScanRoots[1]]
    IN  IF e.asked THEN {e.out} ELSE Outcomes

\* json.MarshalIndent(scanResult, "", "  "): the error, <<>> when none
MarshalErr(o) ==
    IF o.serializable THEN <<>> ELSE <<"json: unsupported value">>

\* json.MarshalIndent(scanResult, "", "  "): the bytes
MarshalIndent(o) ==
    <<"{\n  \"Status\": ", IF o.failed THEN "FAILED" ELSE "SUCCEEDED", "\n}">>

----------------------------------------------------------------------------
(* Locals of one call *)

NoLocals ==
    [op |-> "none", path |-> NULL, config |-> NULL, tmp |-> NULL,
     result |-> NULL,
     rootPath |-> <<>>, pluginNames |-> <<>>, pathsToExtract |-> <<>>,
     i |-> 0, sliced |-> {}, logged |-> FALSE, plugins |-> <<>>,
     scanConfig |-> NoEngineConfig, scanResult |-> NilOutcome]

\* *config, read by thread t (a block that is no request reads as zeroes)
Config(t) ==
    IF loc[t].config = CallerConfig THEN req[t]
    ELSE IF heap[loc[t].config].kind = "config" THEN heap[loc[t].config].val
    ELSE ZeroConfig

\* *result, read in heap h (a block that is no response reads as zeroes)
ResultAt(h, p) ==
    IF h[p].kind = "result" THEN h[p].val ELSE ScanResult(NULL, NULL, 0)

\* the requests the callers build
RootPtrs == {NULL, EmptyText, TmpXText}

Counts == (0 - 1)..MaxCount

\* a request with a root path and every other field zero
DefaultRequest(path) == ScanConfig(path, NULL, 0, NULL, 0, 0, 0, 0)

Requests ==
    {DefaultRequest(r) : r \in RootPtrs}
    \cup {ScanConfig(TmpXText, p, c, NULL, 0, 0, 0, 0) :
        p \in {NULL, PluginsArray}, c \in Counts}
    \cup {ScanConfig(TmpXText, NULL, 0, p, c, 0, 0, 0) :
        p \in {NULL, PathsArray}, c \in Counts}
    \cup {ScanConfig(EmptyText, PluginsArray, 1, PathsArray, MaxCount, 100,
                     v, o) : v \in {0, 1}, o \in {0 - 1, 0, 1}}

\* the requests of two callers that run at the same time, each releasing
\* its own responses only
ConcRequests ==
    {DefaultRequest(NULL), DefaultRequest(EmptyText), DefaultRequest(TmpXText),
     ScanConfig(TmpXText, PluginsArray, MaxCount, PathsArray, 1, 100, 1, 1)}

\* the caller threads
callers == IF scenario = "two callers" THEN Threads ELSE {1}

\* the requests the callers pass
menu == IF scenario = "two callers" THEN ConcRequests ELSE Requests

\* whether the callers pass null to the two free functions
nullFrees == scenario = "one caller"

\* whether the engine answers alike when asked about a root again, so that
\* two calls can be compared
steady == scenario = "two callers"

----------------------------------------------------------------------------
InitState ==
    /\ heap = [b \in Blocks |-> FreeBlock]
    /\ pc = [t \in Threads |-> "idle"]
    /\ req = [t \in Threads |-> ZeroConfig]
    /\ loc = [t \in Threads |-> NoLocals]
    /\ held = [t \in Threads |-> <<>>]
    /\ calls = [t \in Threads |-> 0]
    /\ trace = [t \in Threads |-> <<>>]
    /\ reads = [t \in Threads |-> <<>>]
    /\ faults = {}
    /\ crashed = FALSE
    /\ last = "none"
    /\ engine = [r \in Roots |-> Unasked]

\* one caller thread
Init ==
    /\ InitState
    /\ registry \in SUBSET PluginNames
    /\ scenario = "one caller"

\* two caller threads
InitConc ==
    /\ InitState
    /\ registry = {<<"os/dpkg">>}
    /\ scenario = "two callers"

World == UNCHANGED <<registry, scenario>>

RECURSIVE Sum(_, _)
Sum(f, S) == IF S = {} THEN 0
             ELSE LET x == CHOOSE y \in S : TRUE IN f[x] + Sum(f, S \ {x})

\* thread t may enter the boundary
MayCall(t) ==
    /\ ~crashed /\ t \in callers /\ pc[t] = "idle"
    /\ Sum(calls, Threads) < MaxCalls

\* the sequence s without its i-th element
Remove(s, i) == SubSeq(s, 1, i - 1) \o SubSeq(s, i + 1, Len(s))

Held(p, kind) == [ptr |-> p, kind |-> kind]

----------------------------------------------------------------------------
(* ScalibrVersion *)

ScalibrVersion(t) ==
    /\ MayCall(t)
    /\ LET b == FreshBlock(heap, t)
       IN  /\ heap' = Alloc(heap, b, t, calls[t] + 1, "text",
                            [text |-> <<"1.0.0">>])
           /\ held' = [held EXCEPT ![t] = Append(@, Held(b, "str"))]
    /\ calls' = [calls EXCEPT ![t] = @ + 1]
    /\ last' = "other"
    /\ UNCHANGED <<pc, req, loc, trace, reads, faults, crashed>>
    /\ UNCHANGED engine
    /\ World

(* ScalibrFreeString: str is null or a text the caller holds *)

ScalibrFreeString(t, i) ==
    /\ ~crashed /\ t \in callers /\ pc[t] = "idle"
    /\ i \in 0..Len(held[t])
    /\ IF i = 0 THEN nullFrees ELSE held[t][i].kind = "str"
    /\ LET str == IF i = 0 THEN NULL ELSE held[t][i].ptr
       IN  /\ heap' = Free(heap, str)
           /\ faults' = faults \cup FreeFault(heap, str)
           /\ last' = IF str = NULL THEN "FreeStringNull" ELSE "other"
    /\ held' = [held EXCEPT ![t] = IF i = 0 THEN @ ELSE Remove(@, i)]
    /\ UNCHANGED <<pc, req, loc, calls, trace, reads, crashed>>
    /\ UNCHANGED engine
    /\ World

(* ScalibrFreeScanResult: result is null or a response the caller holds *)

\* a release that frees json_result and the structure only
ScalibrFreeScanResultLeaksMessage(t, i) ==
    /\ ~crashed /\ t \in callers /\ pc[t] = "idle"
    /\ i \in 0..Len(held[t])
    /\ IF i = 0 THEN nullFrees ELSE held[t][i].kind = "res"
    /\ LET result == IF i = 0 THEN NULL ELSE held[t][i].ptr
       IN  IF result = NULL
           THEN /\ last' = "FreeScanResultNull"
                /\ UNCHANGED <<heap, faults, crashed>>
           ELSE LET r  == ResultAt(heap, result)
                    h1 == IF r.json_result # NULL
                          THEN Free(heap, r.json_result) ELSE heap
                    f1 == IF r.json_result # NULL
                          THEN FreeFault(heap, r.json_result) ELSE {}
                    h2 == h1
                    f2 == {}
                IN  /\ heap' = Free(h2, result)
                    /\ faults' = faults \cup AccessFault(heap, t, result)
                                   \cup f1 \cup f2 \cup FreeFault(h2, result)
                    /\ last' = "other"
                    /\ UNCHANGED crashed
    /\ held' = [held EXCEPT ![t] = IF i = 0 THEN @ ELSE Remove(@, i)]
    /\ UNCHANGED <<pc, req, loc, calls, trace, reads>>
    /\ UNCHANGED engine
    /\ World

\* a release that reads result.json_result without the check for null
ScalibrFreeScanResultNoNilCheck(t, i) ==
    /\ ~crashed /\ t \in callers /\ pc[t] = "idle"
    /\ i \in 0..Len(held[t])
    /\ IF i = 0 THEN nullFrees ELSE held[t][i].kind = "res"
    /\ LET result == IF i = 0 THEN NULL ELSE held[t][i].ptr
       IN  IF result = NULL
           THEN /\ last' = "FreeScanResultNull"
                /\ crashed' = TRUE
                /\ UNCHANGED <<heap, faults>>
           ELSE LET r  == ResultAt(heap, result)
                    h1 == IF r.json_result # NULL
                          THEN Free(heap, r.json_result) ELSE heap
                    f1 == IF r.json_result # NULL
                          THEN FreeFault(heap, r.json_result) ELSE {}
                    h2 == IF r.error_message # NULL
                          THEN Free(h1, r.error_message) ELSE h1
                    f2 == IF r.error_message # NULL
                          THEN FreeFault(h1, r.error_message) ELSE {}
                IN  /\ heap' = Free(h2, result)
                    /\ faults' = faults \cup AccessFault(heap, t, result)
                                   \cup f1 \cup f2 \cup FreeFault(h2, result)
                    /\ last' = "other"
                    /\ UNCHANGED crashed
    /\ held' = [held EXCEPT ![t] = IF i = 0 THEN @ ELSE Remove(@, i)]
    /\ UNCHANGED <<pc, req, loc, calls, trace, reads>>
    /\ UNCHANGED engine
    /\ World

ScalibrFreeScanResult(t, i) ==
    /\ ~crashed /\ t \in callers /\ pc[t] = "idle"
    /\ i \in 0..Len(held[t])
    /\ IF i = 0 THEN nullFrees ELSE held[t][i].kind = "res"
    /\ LET result == IF i = 0 THEN NULL ELSE held[t][i].ptr
       IN  IF result = NULL
           THEN /\ last' = "FreeScanResultNull"
                /\ UNCHANGED <<heap, faults, crashed>>
           ELSE LET r  == ResultAt(heap, result)
                    h1 == IF r.json_result # NULL
                          THEN Free(heap, r.json_result) ELSE heap
                    f1 == IF r.json_result # NULL
                          THEN FreeFault(heap, r.json_result) ELSE {}
                    h2 == IF r.error_message # NULL
                          THEN Free(h1, r.error_message) ELSE h1
                    f2 == IF r.error_message # NULL
                          THEN FreeFault(h1, r.error_message) ELSE {}
                IN  /\ heap' = Free(h2, result)
                    /\ faults' = faults \cup AccessFault(heap, t, result)
                                   \cup f1 \cup f2 \cup FreeFault(h2, result)
                    /\ last' = "other"
                    /\ UNCHANGED crashed
    /\ held' = [held EXCEPT ![t] = IF i = 0 THEN @ ELSE Remove(@, i)]
    /\ UNCHANGED <<pc, req, loc, calls, trace, reads>>
    /\ UNCHANGED engine
    /\ World

----------------------------------------------------------------------------
(* ScalibrScan, one action per step; Step(t, n) logs the step of the      *)
(* per-call state machine that thread t enters                            *)

Step(t, names) == trace' = [trace EXCEPT ![t] = @ \o names]

\* the call of thread t that is running
CallOf(t) == calls[t]

\* thread t goes to the step at label l
Goto(t, l) == pc' = [pc EXCEPT ![t] = l]

\* a failure path that sets the message and leaves status_code as it was
FailKeepsStatus(t, msg, code) ==
    LET b == FreshBlock(heap, t)
        h == Alloc(heap, b, t, CallOf(t), "text", [text |-> msg])
    IN  /\ heap' = [h EXCEPT ![loc[t].result].val.error_message = b]
        /\ faults' = faults \cup AccessFault(heap, t, loc[t].result)

\* result.error_message = C.CString(msg); result.status_code = code
Fail(t, msg, code) ==
    LET b == FreshBlock(heap, t)
        h == Alloc(heap, b, t, CallOf(t), "text", [text |-> msg])
    IN  /\ heap' = [h EXCEPT ![loc[t].result].val.error_message = b,
                             ![loc[t].result].val.status_code = code]
        /\ faults' = faults \cup AccessFault(heap, t, loc[t].result)

\* the caller enters ScalibrScan with a null or a caller-owned request
CallScan(t, config, r) ==
    /\ MayCall(t)
    /\ calls' = [calls EXCEPT ![t] = @ + 1]
    /\ req' = [req EXCEPT ![t] = r]
    /\ loc' = [loc EXCEPT ![t] = [NoLocals EXCEPT !.op = "ScalibrScan",
                                                     !.config = config]]
    /\ Goto(t, "alloc")
    /\ trace' = [trace EXCEPT ![t] = <<>>]
    /\ reads' = [reads EXCEPT ![t] = <<>>]
    /\ last' = "other"
    /\ UNCHANGED <<heap, held, faults, crashed>>
    /\ UNCHANGED engine
    /\ World

\* lines 88-91: allocate the response, null both texts, status 0
ScanAlloc(t) ==
    /\ ~crashed /\ pc[t] = "alloc"
    /\ LET b == FreshBlock(heap, t)
       IN  /\ heap' = Alloc(heap, b, t, CallOf(t), "result",
                            ScanResult(NULL, NULL, 0))
           /\ loc' = [loc EXCEPT ![t].result = b]
    /\ Goto(t, "validate")
    /\ last' = "other"
    /\ UNCHANGED <<req, held, calls, trace, reads, faults, crashed>>
    /\ UNCHANGED engine
    /\ World

\* a validation that takes a null request for an empty one
ScanValidateNoNilCheck(t) ==
    /\ ~crashed /\ pc[t] = "validate"
    /\ LET rootPath == IF loc[t].config = NULL THEN <<>>
                       ELSE GoString(heap, Config(t).root_path)
       IN  loc' = [loc EXCEPT ![t].rootPath =
                       IF rootPath = <<>> THEN <<"/">> ELSE rootPath]
    /\ faults' = faults \cup AccessFault(heap, t, loc[t].config)
    /\ Goto(t, "plugins")
    /\ Step(t, <<"ValidateRequest">>)
    /\ last' = "other"
    /\ UNCHANGED <<heap, req, held, calls, reads, crashed>>
    /\ UNCHANGED engine
    /\ World

\* lines 93-103: reject a null request; the root path, "/" when null or empty
ScanValidate(t) ==
    /\ ~crashed /\ pc[t] = "validate"
    /\ IF loc[t].config = NULL
       THEN /\ Fail(t, <<"config cannot be nil">>, 1)
            /\ Goto(t, "ret")
            /\ Step(t, <<"ValidateRequest", "BuildResponse">>)
            /\ UNCHANGED loc
       ELSE /\ LET rootPath == GoString(heap, Config(t).root_path)
               IN  loc' = [loc EXCEPT ![t].rootPath =
                               IF rootPath = <<>> THEN <<"/">> ELSE rootPath]
            /\ faults' = faults \cup AccessFault(heap, t, loc[t].config)
            /\ Goto(t, "plugins")
            /\ Step(t, <<"ValidateRequest">>)
            /\ UNCHANGED heap
    /\ last' = "other"
    /\ UNCHANGED <<req, held, calls, reads, crashed>>
    /\ UNCHANGED engine
    /\ World

\* a guard that lets a zero count through
DecodeNeededFromZero(count) == count >= 0

\* lines 107, 117: an array is decoded only when its count is positive
DecodeNeeded(count) == count > 0

\* lines 109, 119: the slice over the array; slicing a nil array pointer panics
SlicePanics(array, count) == array = NULL

\* lines 106-113 (out = "pluginNames") and 116-123 (out = "pathsToExtract"):
\* the whole statement when the count is not positive, else one iteration of
\* the loop, the first one after make([]string, count) and the slice
Decode(t, array, count, out, nextpc) ==
    /\ faults' = faults \cup AccessFault(heap, t, loc[t].config)
    /\ IF ~DecodeNeeded(count)
       THEN /\ Goto(t, nextpc)
            /\ UNCHANGED <<loc, reads, crashed>>
       ELSE IF array \notin loc[t].sliced
               /\ (count < 0 \/ SlicePanics(array, count))
       THEN /\ crashed' = TRUE
            /\ UNCHANGED <<loc, reads, pc>>
       ELSE IF count = 0
       THEN /\ loc' = [loc EXCEPT ![t].sliced = @ \cup {array}]
            /\ Goto(t, nextpc)
            /\ UNCHANGED <<reads, crashed>>
       ELSE \* for i, p := range slice { out[i] = C.GoString(p) }
            LET i == IF array \in loc[t].sliced THEN loc[t].i ELSE 0
                p == CallerArrayAt(array)[i + 1]
            IN  /\ reads' = [reads EXCEPT ![t] = Append(@, <<array, i>>)]
                /\ loc' = [loc EXCEPT ![t][out] = Append(@, GoString(heap, p)),
                                      ![t].sliced = @ \cup {array},
                                      ![t].i = i + 1]
                /\ IF i + 1 = count THEN Goto(t, nextpc) ELSE UNCHANGED pc
                /\ UNCHANGED crashed

ScanPlugins(t) ==
    /\ ~crashed /\ pc[t] = "plugins"
    /\ Decode(t, Config(t).plugins, Config(t).plugins_count, "pluginNames",
              "paths")
    /\ last' = "other"
    /\ UNCHANGED <<heap, req, held, calls, trace>>
    /\ UNCHANGED engine
    /\ World

ScanPaths(t) ==
    /\ ~crashed /\ pc[t] = "paths"
    /\ Decode(t, Config(t).paths_to_extract, Config(t).paths_count,
              "pathsToExtract", "resolve")
    /\ last' = "other"
    /\ UNCHANGED <<heap, req, held, calls, trace>>
    /\ UNCHANGED engine
    /\ World

\* a plugin failure that sets the error and forgets to return
ScanResolveNoReturn(t) ==
    /\ ~crashed /\ pc[t] = "resolve"
    /\ LET err == FromNamesErr(loc[t].pluginNames)
       IN  IF err # <<>>
           THEN /\ Fail(t, <<"failed to load plugins: ">> \o err, 2)
                /\ Goto(t, "engine")
                /\ Step(t, <<"ResolvePlugins", "BuildResponse">>)
                /\ UNCHANGED loc
           ELSE /\ loc' = [loc EXCEPT ![t].logged = (Config(t).verbose # 0),
                                      ![t].plugins =
                                          FromNames(loc[t].pluginNames)]
                /\ faults' = faults \cup AccessFault(heap, t, loc[t].config)
                /\ Goto(t, "engine")
                /\ Step(t, <<"ResolvePlugins">>)
                /\ UNCHANGED heap
    /\ last' = "other"
    /\ UNCHANGED <<req, held, calls, reads, crashed>>
    /\ UNCHANGED engine
    /\ World

\* lines 126-138: the verbose log line, then resolve the plugin names
ScanResolve(t) ==
    /\ ~crashed /\ pc[t] = "resolve"
    /\ LET err == FromNamesErr(loc[t].pluginNames)
       IN  IF err # <<>>
           THEN /\ Fail(t, <<"failed to load plugins: ">> \o err, 2)
                /\ Goto(t, "ret")
                /\ Step(t, <<"ResolvePlugins", "BuildResponse">>)
                /\ UNCHANGED loc
           ELSE /\ loc' = [loc EXCEPT ![t].logged = (Config(t).verbose # 0),
                                      ![t].plugins =
                                          FromNames(loc[t].pluginNames)]
                /\ faults' = faults \cup AccessFault(heap, t, loc[t].config)
                /\ Goto(t, "engine")
                /\ Step(t, <<"ResolvePlugins">>)
                /\ UNCHANGED heap
    /\ last' = "other"
    /\ UNCHANGED <<req, held, calls, reads, crashed>>
    /\ UNCHANGED engine
    /\ World

\* capabilities that take the offline flag for offline only when it is 1
CapabOfflineWhenOne(offline) ==
    Capabilities(IF offline = 1 THEN "NetworkOffline" ELSE "NetworkOnline",
                 TRUE, TRUE)

\* lines 141-148: the capabilities
Capab(offline) ==
    Capabilities(IF offline = 0 THEN "NetworkOnline" ELSE "NetworkOffline",
                 TRUE, TRUE)

\* lines 151-157: the engine's configuration
ScanBuildConfig(t) ==
    LET capab == Capab(Config(t).offline)
    IN  EngineConfig(RealFSScanRoots(loc[t].rootPath),
                     FilterByCapabilities(loc[t].plugins, capab),
                     loc[t].pathsToExtract,
                     Config(t).max_file_size, capab)

\* lines 141-161: build the engine's configuration and run the scan
ScanInvoke(t) ==
    /\ ~crashed /\ pc[t] = "engine"
    /\ LET scanConfig == ScanBuildConfig(t)
       IN  \E scanResult \in Scan(scanConfig) :
             /\ loc' = [loc EXCEPT ![t].scanConfig = scanConfig,
                                   ![t].scanResult = scanResult]
             /\ engine' = IF steady
                          THEN [engine EXCEPT ![scanConfig.ScanRoots[1]] =
                                    [asked |-> TRUE, out |-> scanResult]]
                          ELSE engine
    /\ faults' = faults \cup AccessFault(heap, t, loc[t].config)
    /\ Goto(t, "respond")
    /\ Step(t, <<"BuildEngineConfig", "InvokeEngine">>)
    /\ last' = "other"
    /\ UNCHANGED <<heap, req, held, calls, reads, crashed>>
    /\ World

\* a serialization failure reported with the code of the nil outcome
ScanBuildResponseSameCode(t) ==
    /\ ~crashed /\ pc[t] = "respond"
    /\ LET scanResult == loc[t].scanResult
           err == MarshalErr(scanResult)
       IN  IF ~scanResult.present
           THEN Fail(t, <<"scan returned nil result">>, 3)
           ELSE IF err # <<>>
           THEN Fail(t, <<"failed to marshal result: ">> \o err, 3)
           ELSE LET b == FreshBlock(heap, t)
                    h == Alloc(heap, b, t, CallOf(t), "text",
                               [text |-> MarshalIndent(scanResult)])
                IN  /\ heap' = [h EXCEPT
                                  ![loc[t].result].val.json_result = b,
                                  ![loc[t].result].val.status_code = 0]
                    /\ faults' = faults
                                   \cup AccessFault(heap, t, loc[t].result)
    /\ Goto(t, "ret")
    /\ Step(t, <<"BuildResponse">>)
    /\ last' = "other"
    /\ UNCHANGED <<req, loc, held, calls, reads, crashed>>
    /\ UNCHANGED engine
    /\ World

\* a response built without the check for a nil outcome
ScanBuildResponseNoNilCheck(t) ==
    /\ ~crashed /\ pc[t] = "respond"
    /\ LET scanResult == loc[t].scanResult
           err == MarshalErr(scanResult)
       IN  IF err # <<>>
           THEN Fail(t, <<"failed to marshal result: ">> \o err, 4)
           ELSE LET b == FreshBlock(heap, t)
                    h == Alloc(heap, b, t, CallOf(t), "text",
                               [text |-> MarshalIndent(scanResult)])
                IN  /\ heap' = [h EXCEPT
                                  ![loc[t].result].val.json_result = b,
                                  ![loc[t].result].val.status_code = 0]
                    /\ faults' = faults
                                   \cup AccessFault(heap, t, loc[t].result)
    /\ Goto(t, "ret")
    /\ Step(t, <<"BuildResponse">>)
    /\ last' = "other"
    /\ UNCHANGED <<req, loc, held, calls, reads, crashed>>
    /\ UNCHANGED engine
    /\ World

\* lines 163-179: nil outcome, serialization failure, or the JSON text
ScanBuildResponse(t) ==
    /\ ~crashed /\ pc[t] = "respond"
    /\ LET scanResult == loc[t].scanResult
           err == MarshalErr(scanResult)
       IN  IF ~scanResult.present
           THEN Fail(t, <<"scan returned nil result">>, 3)
           ELSE IF err # <<>>
           THEN Fail(t, <<"failed to marshal result: ">> \o err, 4)
           ELSE LET b == FreshBlock(heap, t)
                    h == Alloc(heap, b, t, CallOf(t), "text",
                               [text |-> MarshalIndent(scanResult)])
                IN  /\ heap' = [h EXCEPT
                                  ![loc[t].result].val.json_result = b,
                                  ![loc[t].result].val.status_code = 0]
                    /\ faults' = faults
                                   \cup AccessFault(heap, t, loc[t].result)
    /\ Goto(t, "ret")
    /\ Step(t, <<"BuildResponse">>)
    /\ last' = "other"
    /\ UNCHANGED <<req, loc, held, calls, reads, crashed>>
    /\ UNCHANGED engine
    /\ World

\* the caller receives the response
Deliver(t, result) ==
    /\ held' = [held EXCEPT ![t] = Append(@, Held(result, "res"))]
    /\ Goto(t, "idle")
    /\ loc' = [loc EXCEPT ![t] = NoLocals]
    /\ req' = [req EXCEPT ![t] = ZeroConfig]
    /\ reads' = [reads EXCEPT ![t] = <<>>]

\* return result: to the caller, or to ScalibrScanPath
ScanReturn(t) ==
    /\ ~crashed /\ pc[t] = "ret"
    /\ IF loc[t].op = "ScalibrScanPath"
       THEN /\ Goto(t, "defer")
            /\ UNCHANGED <<held, loc, req, reads>>
       ELSE Deliver(t, loc[t].result)
    /\ Step(t, <<"Return">>)
    /\ last' = "other"
    /\ UNCHANGED <<heap, calls, faults, crashed>>
    /\ UNCHANGED engine
    /\ World

----------------------------------------------------------------------------
(* ScalibrScanPath *)

\* a temporary request that ignores the path
PathRequestNoPath(path) == ScanConfig(NULL, NULL, 0, NULL, 0, 0, 0, 0)

\* lines 189-196: the fields of the temporary request
PathRequest(path) == ScanConfig(path, NULL, 0, NULL, 0, 0, 0, 0)

\* the temporary request freed at once instead of by a deferred call
ScalibrScanPathFreesEarly(t, path) ==
    /\ MayCall(t)
    /\ calls' = [calls EXCEPT ![t] = @ + 1]
    /\ LET config == FreshBlock(heap, t)
       IN  /\ heap' = Free(Alloc(heap, config, t, calls[t] + 1, "config",
                                 PathRequest(path)), config)
           /\ loc' = [loc EXCEPT ![t] =
                        [NoLocals EXCEPT !.op = "ScalibrScanPath",
                                         !.path = path,
                                         !.config = config, !.tmp = config]]
    /\ Goto(t, "alloc")
    /\ trace' = [trace EXCEPT ![t] = <<>>]
    /\ reads' = [reads EXCEPT ![t] = <<>>]
    /\ last' = "other"
    /\ UNCHANGED <<req, held, faults, crashed>>
    /\ UNCHANGED engine
    /\ World

\* lines 186-198: the temporary request, then the call of ScalibrScan
ScalibrScanPath(t, path) ==
    /\ MayCall(t)
    /\ calls' = [calls EXCEPT ![t] = @ + 1]
    /\ LET config == FreshBlock(heap, t)
       IN  /\ heap' = Alloc(heap, config, t, calls[t] + 1, "config",
                            PathRequest(path))
           /\ loc' = [loc EXCEPT ![t] =
                        [NoLocals EXCEPT !.op = "ScalibrScanPath",
                                         !.path = path,
                                         !.config = config, !.tmp = config]]
    /\ Goto(t, "alloc")
    /\ trace' = [trace EXCEPT ![t] = <<>>]
    /\ reads' = [reads EXCEPT ![t] = <<>>]
    /\ last' = "other"
    /\ UNCHANGED <<req, held, faults, crashed>>
    /\ UNCHANGED engine
    /\ World

\* line 187: the deferred free runs when ScalibrScan has returned
ScanPathReturn(t) ==
    /\ ~crashed /\ pc[t] = "defer"
    /\ heap' = Free(heap, loc[t].tmp)
    /\ faults' = faults \cup FreeFault(heap, loc[t].tmp)
    /\ Deliver(t, loc[t].result)
    /\ last' = "other"
    /\ UNCHANGED <<calls, trace, crashed>>
    /\ UNCHANGED engine
    /\ World

----------------------------------------------------------------------------
Next ==
    \E t \in Threads :
        \/ ScalibrVersion(t)
        \/ \E i \in 0..Len(held[t]) : ScalibrFreeString(t, i)
        \/ \E i \in 0..Len(held[t]) : ScalibrFreeScanResult(t, i)
        \/ CallScan(t, NULL, ZeroConfig)
        \/ \E r \in menu : CallScan(t, CallerConfig, r)
        \/ ScanAlloc(t)
        \/ ScanValidate(t)
        \/ ScanPlugins(t)
        \/ ScanPaths(t)
        \/ ScanResolve(t)
        \/ ScanInvoke(t)
        \/ ScanBuildResponse(t)
        \/ ScanReturn(t)
        \/ \E r \in menu : ScalibrScanPath(t, r.root_path)
        \/ ScanPathReturn(t)

Spec == Init /\ [][Next]_vars

SpecConc == InitConc /\ [][Next]_vars

----------------------------------------------------------------------------
(* Properties *)

\* the responses thread t has in hand: the one its call is about to return
\* and the ones it holds
Responses(t) ==
    (IF pc[t] \in {"ret", "defer"} THEN {loc[t].result} ELSE {})
    \cup {held[t][i].ptr : i \in {j \in 1..Len(held[t]) :
                                     held[t][j].kind = "res"}}

WellFormed(r) ==
    /\ (r.json_result # NULL) # (r.error_message # NULL)
    /\ (r.status_code = 0) <=> (r.json_result # NULL)

\* C1: every response ScalibrScan returns has exactly one of json_result and
\* error_message non-null, and status_code = 0 exactly when json_result is
\* non-null
C1_ExactlyOneField ==
    \A t \in Threads : \A p \in Responses(t) :
        /\ heap[p].st = "live" /\ heap[p].kind = "result"
        /\ WellFormed(heap[p].val)

\* a caller holds the response of a call that failed to serialize
C1_Witness ==
    \E i \in 1..Len(held[1]) :
        /\ held[1][i].kind = "res"
        /\ heap[held[1][i].ptr].val.status_code = 4
        /\ heap[held[1][i].ptr].val.json_result = NULL
        /\ heap[held[1][i].ptr].val.error_message # NULL

\* the blocks thread t can reach from the pointers it holds
HeldBlocks(t) ==
    UNION {{held[t][i].ptr} \cup
           (IF held[t][i].kind = "res"
            THEN {ResultAt(heap, held[t][i].ptr).json_result,
                  ResultAt(heap, held[t][i].ptr).error_message} \ {NULL}
            ELSE {}) : i \in 1..Len(held[t])}

\* the blocks the running call of thread t has allocated
CallBlocks(t) ==
    {b \in Blocks : pc[t] # "idle" /\ heap[b].owner = t
                    /\ heap[b].call = calls[t]}

\* C2: once a response has been released with ScalibrFreeScanResult, nothing
\* its call allocated is live and nothing was freed twice: a live block
\* belongs to a running call or is reachable from a pointer a caller holds
C2_ReleaseFreesAll ==
    /\ "double_free" \notin faults
    /\ \A b \in Blocks :
         heap[b].st = "live" =>
            \E t \in Threads : b \in HeldBlocks(t) \cup CallBlocks(t)

\* ScalibrScanPath has returned and its response has been released: the
\* temporary request, the response and its text are freed, nothing is live
C2_Witness ==
    /\ pc[1] = "idle" /\ calls[1] = 1 /\ held[1] = <<>>
    /\ Cardinality({b \in Arena(1) : heap[b].st = "freed"}) = 3
    /\ \A b \in Blocks : heap[b].st # "live"

IsPrefix(s, u) == Len(s) <= Len(u) /\ SubSeq(u, 1, Len(s)) = s

Occurrences(s, x) == Cardinality({i \in 1..Len(s) : s[i] = x})

\* the three ways through the per-call state machine
RejectedRequest == <<"ValidateRequest", "BuildResponse", "Return">>

RejectedPlugins ==
    <<"ValidateRequest", "ResolvePlugins", "BuildResponse", "Return">>

FullScan ==
    <<"ValidateRequest", "ResolvePlugins", "BuildEngineConfig",
      "InvokeEngine", "BuildResponse", "Return">>

\* C3: the steps of a ScalibrScan call follow Validate, Resolve, BuildConfig,
\* Invoke, BuildResponse, Return; the registry and the engine are consulted
\* at most once; a rejected request or a plugin failure goes straight to the
\* response and never reaches the engine
C3_StepOrder ==
    \A t \in Threads :
        /\ \E way \in {RejectedRequest, RejectedPlugins, FullScan} :
               IsPrefix(trace[t], way)
        /\ Occurrences(trace[t], "ResolvePlugins") <= 1
        /\ Occurrences(trace[t], "InvokeEngine") <= 1
        /\ pc[t] \in {"ret", "defer"} =>
             LET code == ResultAt(heap, loc[t].result).status_code
             IN  /\ code = 1 => IsPrefix(trace[t], RejectedRequest)
                 /\ code = 2 => IsPrefix(trace[t], RejectedPlugins)
                 /\ code \in {0, 3, 4} => IsPrefix(trace[t], FullScan)

\* a call whose plugins did not resolve has returned
C3_Witness ==
    /\ trace[1] = RejectedPlugins
    /\ \E i \in 1..Len(held[1]) :
         /\ held[1][i].kind = "res"
         /\ ResultAt(heap, held[1][i].ptr).status_code = 2

\* the failure trigger the call of thread t has met, "none" for a success
Trigger(t) ==
    IF loc[t].config = NULL THEN "null request"
    ELSE IF \E i \in 1..Len(loc[t].pluginNames) :
                loc[t].pluginNames[i] \notin registry
         THEN "plugin resolution failure"
    ELSE IF ~loc[t].scanResult.present THEN "nil engine outcome"
    ELSE IF ~loc[t].scanResult.serializable THEN "serialization failure"
    ELSE "none"

\* C4: a null request gives status 1, a plugin resolution failure 2, a nil
\* engine outcome 3, a serialization failure 4, each with a non-empty
\* error_message and a null json_result; only a success gives 0
C4_FailureCodes ==
    \A t \in Threads :
        pc[t] \in {"ret", "defer"} =>
            LET r == ResultAt(heap, loc[t].result)
            IN  /\ (r.status_code = 1) <=> (Trigger(t) = "null request")
                /\ (r.status_code = 2) <=>
                       (Trigger(t) = "plugin resolution failure")
                /\ (r.status_code = 3) <=> (Trigger(t) = "nil engine outcome")
                /\ (r.status_code = 4) <=>
                       (Trigger(t) = "serialization failure")
                /\ (r.status_code = 0) <=> (Trigger(t) = "none")
                /\ r.status_code # 0 =>
                      /\ r.json_result = NULL
                      /\ r.error_message # NULL
                      /\ GoString(heap, r.error_message) # <<>>

\* a call is about to return the serialization failure
C4_Witness ==
    /\ pc[1] = "ret"
    /\ Trigger(1) = "serialization failure"
    /\ ResultAt(heap, loc[1].result).status_code = 4

\* the engine has run in the call of thread t, which is about to return
EngineRan(t) ==
    /\ pc[t] \in {"ret", "defer"}
    /\ Occurrences(trace[t], "InvokeEngine") = 1

PcRank(l) ==
    CASE l = "idle" -> 0 [] l = "alloc" -> 1 [] l = "validate" -> 2
      [] l = "plugins" -> 4 [] l = "paths" -> 5 [] l = "resolve" -> 7
      [] l = "engine" -> 9 [] l = "respond" -> 10 [] l = "ret" -> 11
      [] l = "defer" -> 12

\* the slots 0..n-1 of an array, in order
SlotsInOrder(array, n) == [k \in 1..n |-> <<array, k - 1>>]

\* the texts in the first n slots of a caller's array
TextsOf(array, n) == [k \in 1..n |-> CallerTextAt(CallerArrayAt(array)[k])]

\* what C6 says of one array, decoded at the step with rank at into out
ArrayDecodedByCount(t, array, count, at, out, before) ==
    LET mine == SelectSeq(reads[t], LAMBDA e : e[1] = array)
    IN  /\ count <= 0 =>
             /\ mine = <<>>
             /\ array \notin loc[t].sliced
             /\ out = <<>>
        /\ count > 0 =>
             /\ PcRank(pc[t]) < at => mine = <<>>
             /\ PcRank(pc[t]) = at =>
                  /\ Len(mine) < count
                  /\ mine = SlotsInOrder(array, Len(mine))
                  /\ out = TextsOf(array, Len(mine))
             /\ PcRank(pc[t]) > at =>
                  /\ mine = SlotsInOrder(array, count)
                  /\ out = TextsOf(array, count)
        /\ IsPrefix(before \o mine, reads[t])

\* C6: of each array ScalibrScan reads the slots 0..count-1, in order, when
\* count is positive, and neither reads a slot nor dereferences the array
\* pointer when count is zero or negative; the decoded sequence is then empty
\* whatever the pointer, and so is what the engine is configured with
C6_ReadsExactlyCount ==
    \A t \in Threads :
        (pc[t] # "idle" /\ loc[t].config # NULL) =>
            LET c == Config(t)
                pluginReads ==
                    SelectSeq(reads[t], LAMBDA e : e[1] = c.plugins)
            IN  /\ ArrayDecodedByCount(t, c.plugins, c.plugins_count, 4,
                                       loc[t].pluginNames, <<>>)
                /\ ArrayDecodedByCount(t, c.paths_to_extract, c.paths_count,
                                       5, loc[t].pathsToExtract, pluginReads)
                /\ (Occurrences(trace[t], "InvokeEngine") = 1 /\ c.paths_count <= 0) =>
                       loc[t].scanConfig.PathsToExtract = <<>>
                /\ (Occurrences(trace[t], "InvokeEngine") = 1 /\ c.plugins_count <= 0) =>
                       loc[t].scanConfig.Plugins = <<>>

\* a call has decoded one plugin name and every path, slot by slot
C6_Witness ==
    /\ pc[1] = "resolve"
    /\ req[1].plugins_count = 1 /\ req[1].paths_count = MaxCount
    /\ reads[1] = SlotsInOrder(PluginsArray, 1)
                    \o SlotsInOrder(PathsArray, MaxCount)

\* status_code and which of the two texts are present
Shape(r) == <<r.status_code, r.json_result # NULL, r.error_message # NULL>>

\* C7: ScalibrScanPath(p) returns a response of the same shape as
\* ScalibrScan on the request with root_path = p and every other field zero,
\* the registry and the engine answering alike
C7_ScanPathMatchesScan ==
    \A t, u \in Threads :
        (/\ pc[t] \in {"ret", "defer"} /\ loc[t].op = "ScalibrScanPath"
         /\ pc[u] = "ret" /\ loc[u].op = "ScalibrScan"
         /\ loc[u].config = CallerConfig
         /\ req[u] = ScanConfig(loc[t].path, NULL, 0, NULL, 0, 0, 0, 0)) =>
            Shape(ResultAt(heap, loc[t].result))
                = Shape(ResultAt(heap, loc[u].result))

\* ScalibrScanPath("/tmp/x") and ScalibrScan on the matching request are both
\* about to return a serialized outcome
C7_Witness ==
    /\ pc[1] = "defer" /\ loc[1].op = "ScalibrScanPath"
    /\ loc[1].path = TmpXText
    /\ pc[2] = "ret" /\ loc[2].op = "ScalibrScan"
    /\ req[2] = ScanConfig(TmpXText, NULL, 0, NULL, 0, 0, 0, 0)
    /\ Shape(ResultAt(heap, loc[1].result)) = <<0, TRUE, FALSE>>
    /\ Shape(ResultAt(heap, loc[2].result)) = <<0, TRUE, FALSE>>

\* the step just taken was a free of the null pointer
NullFreed ==
    last' = "FreeStringNull" \/ last' = "FreeScanResultNull"

\* C8: ScalibrFreeString(null) and ScalibrFreeScanResult(null) change nothing:
\* no block is freed, no fault happens, the process goes on
C8_NullFreeIsNoOp ==
    [][NullFreed =>
          /\ heap' = heap /\ faults' = faults /\ crashed' = crashed
          /\ held' = held /\ pc' = pc]_vars

\* null has been passed to ScalibrFreeScanResult while a response was held
C8_Witness ==
    /\ last = "FreeScanResultNull"
    /\ ~crashed
    /\ \E i \in 1..Len(held[1]) :
         held[1][i].kind = "res" /\ heap[held[1][i].ptr].st = "live"

\* the positions of the texts thread t holds
Strings(t) == {i \in 1..Len(held[t]) : held[t][i].kind = "str"}

\* C9: the texts ScalibrVersion has returned and the caller has not yet freed
\* are live, read "1.0.0" and sit in pairwise distinct blocks, so freeing
\* one leaves the others as they were and none is freed twice
C9_VersionTextsIndependent ==
    /\ "double_free" \notin faults
    /\ \A t \in Threads : \A i \in Strings(t) :
         /\ heap[held[t][i].ptr].st = "live"
         /\ heap[held[t][i].ptr].kind = "text"
         /\ heap[held[t][i].ptr].val.text = <<"1.0.0">>
         /\ \A j \in Strings(t) : i # j => held[t][i].ptr # held[t][j].ptr

\* of two version texts one has been freed and the other is still held
C9_Witness ==
    /\ calls[1] = 2 /\ Len(held[1]) = 1
    /\ held[1][1].kind = "str"
    /\ heap[held[1][1].ptr].val.text = <<"1.0.0">>
    /\ Cardinality({b \in Arena(1) : heap[b].st = "freed"}) = 1
    /\ Cardinality({b \in Arena(1) : heap[b].st = "live"}) = 1

\* the response a call returns when it runs alone, from its request, the
\* registry and the engine's answer for its root: status code and text
Alone(configIsNull, r) ==
    LET names == IF r.plugins_count > 0
                 THEN TextsOf(r.plugins, r.plugins_count) ELSE <<>>
        unknown == {k \in 1..Len(names) : names[k] \notin registry}
        root == IF GoString(heap, r.root_path) = <<>> THEN <<"/">>
                ELSE GoString(heap, r.root_path)
        o == engine[root].out
    IN  IF configIsNull THEN <<1, <<"config cannot be nil">>>>
        ELSE IF unknown # {}
        THEN <<2, <<"failed to load plugins: ", "plugin ">>
                    \o names[Min(unknown)] \o <<" not found">>>>
        ELSE IF ~o.present THEN <<3, <<"scan returned nil result">>>>
        ELSE IF ~o.serializable
        THEN <<4, <<"failed to marshal result: ", "json: unsupported value">>>>
        ELSE <<0, <<"{\n  \"Status\": ",
                    IF o.failed THEN "FAILED" ELSE "SUCCEEDED", "\n}">>>>

\* the response the call of thread t is about to return: status code and text
Returned(t) ==
    LET r == ResultAt(heap, loc[t].result)
    IN  <<r.status_code,
          GoString(heap, IF r.status_code = 0 THEN r.json_result
                         ELSE r.error_message)>>

\* C10: with two threads calling at once, each freeing only its own
\* responses, no memory error happens, every block of a response belongs to
\* the thread that gets it, and each thread gets the response its request
\* gives when run alone
C10_ConcurrentCallsIndependent ==
    /\ faults = {}
    /\ ~crashed
    /\ \A t \in Threads : \A p \in Responses(t) :
         LET r == ResultAt(heap, p)
         IN  \A b \in {p, r.json_result, r.error_message} \ {NULL} :
                heap[b].st = "live" /\ heap[b].owner = t
    /\ \A t \in Threads :
         pc[t] \in {"ret", "defer"} =>
            Returned(t) =
                Alone(loc[t].config = NULL,
                      IF loc[t].op = "ScalibrScanPath"
                      THEN ScanConfig(loc[t].path, NULL, 0, NULL, 0, 0, 0, 0)
                      ELSE req[t])

\* both threads are about to return, one a plugin failure and the other a
\* serialized outcome
C10_Witness ==
    /\ pc[1] = "ret" /\ pc[2] = "ret"
    /\ ResultAt(heap, loc[1].result).status_code = 2
    /\ ResultAt(heap, loc[2].result).status_code = 0
    /\ req[1].plugins_count = MaxCount /\ req[2].plugins_count = 0

\* a call of ScalibrScan with a null request that is under way in thread t
NullRequestCall(t) ==
    /\ pc[t] # "idle" /\ loc[t].op = "ScalibrScan" /\ loc[t].config = NULL

\* C11 as stated: a call with a null request is rejected as InvalidArgument
\* and allocates nothing on the way
C11_NullRequestAllocatesNothing ==
    \A t \in Threads :
        NullRequestCall(t) =>
            /\ CallBlocks(t) = {}
            /\ pc[t] = "ret" => trace[t] = SubSeq(RejectedRequest, 1, 2)

\* C11: a call with a null request is rejected as InvalidArgument, status 1
\* with the fixed message and no JSON text, before the request is read, the
\* registry asked or the engine run; what it allocates is the response and
\* the message text, the two blocks the caller releases, and nothing else
C11_NullRequestRejectedFirst ==
    \A t \in Threads :
        NullRequestCall(t) =>
            /\ pc[t] \in {"alloc", "validate", "ret"}
            /\ reads[t] = <<>> /\ loc[t].sliced = {}
            /\ loc[t].scanConfig = NoEngineConfig
            /\ pc[t] = "alloc" => CallBlocks(t) = {}
            /\ pc[t] = "validate" =>
                  /\ CallBlocks(t) = {loc[t].result}
                  /\ heap[loc[t].result].val = ScanResult(NULL, NULL, 0)
            /\ pc[t] = "ret" =>
                  LET r == ResultAt(heap, loc[t].result)
                  IN  /\ trace[t] = SubSeq(RejectedRequest, 1, 2)
                      /\ r.status_code = 1 /\ r.json_result = NULL
                      /\ r.error_message # NULL
                      /\ GoString(heap, r.error_message)
                           = <<"config cannot be nil">>
                      /\ CallBlocks(t) = {loc[t].result, r.error_message}
                      /\ heap[loc[t].result].kind = "result"
                      /\ heap[r.error_message].kind = "text"

\* a call with a null request is about to return its rejection, with the
\* response and the message allocated
C11_Witness ==
    /\ NullRequestCall(1) /\ pc[1] = "ret"
    /\ ResultAt(heap, loc[1].result).status_code = 1
    /\ Cardinality(CallBlocks(1)) = 2

\* the engine of the call under way in thread t has been handed its
\* configuration
EngineConfigured(t) == pc[t] # "idle" /\ loc[t].scanConfig # NoEngineConfig

\* C12: in the configuration handed to the engine the network capability is
\* online exactly when the request's offline flag is zero, offline for every
\* other value, and direct filesystem access and the running system are
\* granted whatever the request says; the plugins are filtered by these
\* same capabilities
C12_CapabilitiesFromOffline ==
    \A t \in Threads :
        EngineConfigured(t) =>
            LET capab == loc[t].scanConfig.Capabilities
            IN  /\ capab.Network = "NetworkOnline" <=> Config(t).offline = 0
                /\ capab.Network = "NetworkOffline" <=> Config(t).offline # 0
                /\ capab.DirectFS /\ capab.RunningSystem
                /\ loc[t].scanConfig.Plugins =
                       FilterByCapabilities(loc[t].plugins, capab)

\* the engine has run offline for a request whose offline flag is negative
C12_Witness ==
    /\ EngineConfigured(1) /\ pc[1] = "respond"
    /\ req[1].offline < 0
    /\ loc[1].scanConfig.Capabilities.Network = "NetworkOffline"
    /\ loc[1].scanConfig.Capabilities.DirectFS

\* a call of ScalibrScanPath that is under way in thread t
PathCall(t) == pc[t] # "idle" /\ loc[t].op = "ScalibrScanPath"

\* C13: the temporary request of ScalibrScanPath is live, and holds the
\* caller's path pointer and zeroes, for as long as the delegated ScalibrScan
\* runs; it is freed once, when that call has returned, and never reaches the
\* caller; nothing is read after its release, nothing is freed twice and no
\* memory of the caller, the path text included, is freed
C13_TemporaryRequestFreedOnce ==
    /\ faults \cap {"use_after_free", "double_free", "invalid_free",
                    "free_of_caller_memory"} = {}
    /\ \A t \in Threads :
         /\ PathCall(t) =>
              /\ loc[t].tmp \in Arena(t) /\ loc[t].config = loc[t].tmp
              /\ heap[loc[t].tmp].st = "live"
              /\ heap[loc[t].tmp].kind = "config"
              /\ heap[loc[t].tmp].val = DefaultRequest(loc[t].path)
              /\ loc[t].path \notin Blocks
              /\ loc[t].result # loc[t].tmp
         /\ \A i \in 1..Len(held[t]) :
              heap[held[t][i].ptr].kind # "config"
    /\ \A b \in Blocks :
         (heap[b].st = "live" /\ heap[b].kind = "config") =>
             \E t \in Threads : PathCall(t) /\ loc[t].tmp = b

\* ScalibrScanPath has returned a response the caller still holds: of the
\* three blocks of the call the temporary request alone has been freed
C13_Witness ==
    /\ pc[1] = "idle" /\ calls[1] = 1 /\ Len(held[1]) = 1
    /\ held[1][1].kind = "res"
    /\ Cardinality({b \in Arena(1) : heap[b].st = "freed"}) = 1
    /\ Cardinality({b \in Arena(1) : heap[b].st = "live"}) = 2
    /\ heap[Min(Arena(1))].st = "freed"

====
